---- MODULE Spec2Model ----
\* Shift auto-assignment engine of src/app.py (auto_assign_shifts_for_month)
\* and the part of its caller (page_auto_scheduler) that feeds it.
\*
\* Encoding of the source's string values:
\*   role      "employee" = 社員, "parttime" = アルバイト
\*   position  "manager" = 店長, "chef" = 料理長, "employee" = 社員,
\*             "kitchen" = 調理場担当, "hall" = ホール担当, "allround" = オールラウンド
\*   request   "hope" = 希望, "NG" = NG
\* A date of the target month is its day number 1..last_day; its weekday is
\* derived from the weekday of the first day (0 = Monday .. 6 = Sunday).
\* A missing day off (NaN) is -1, which the code's range test 0 <= w <= 6 drops.
EXTENDS Integers, Sequences, FiniteSets, TLC

\* ---------------------------------------------------------------------
\* Bounds of the explored input space
\* ---------------------------------------------------------------------
\* number of days of the (truncated) target month explored under Spec
NumDays == 3

\* ---------------------------------------------------------------------
\* Program constants
\* ---------------------------------------------------------------------
WEEKDAY_REQUIRED_STAFF == 5
WEEKEND_REQUIRED_STAFF == 6
REQUIRED_EMPLOYEES == 2
DEFAULT_OPEN_TIME == "17:00"
DEFAULT_CLOSE_TIME == "24:00"
MANAGER_ID == "S001"
CHEF_ID == "S002"
EMP_SATO_ID == "S003"

\* Python's string order on the staff ids that occur in the explored rosters
StaffIdOrder ==
    << "A001", "A002", "A003", "A004", "A005", "A006", "A007",
       "S001", "S002", "S003", "S004", "S005" >>

VARIABLES
    STAFF_DF,            \* roster: sequence of staff rows
    requests_df,         \* availability entries of the month: sequence of rows
    existing_shifts_df,  \* confirmed shifts of the month: sequence of rows
    first_weekday,       \* weekday of day 1 of (year, month)
    last_day,            \* number of days of (year, month)
    holiday_dates,       \* days of the month that are public holidays
    assigned_count,      \* staff_id -> running number of shifts this month
    new_shift_rows,      \* the proposal built so far
    combined,            \* existing + proposal, frozen at the start of Phase 3
    pc,                  \* "phase1" | "phase2" | "phase3" | "done"
    idx,                 \* position in the date list of the current phase
    loop_left,           \* iterations left of the current per-date loop (0: not in a loop)
    assigned_today,      \* staff ids on the date being processed
    sato_is_off,         \* Phase 3: EMP_SATO_ID not among the date's assignees
    mode,                \* Phase 3: mode of the last selection
    cand,                \* sorted candidate list of the last selection
    auto_df,             \* the caller's copy of the last returned proposal
    run,                 \* number of the current run of the engine
    inputs0,             \* the inputs as they were when the current run started
    shifts_file,         \* SHIFT_FILE as load_csv returns it: sequence of rows
    session_state,       \* session -> its "auto_shift_proposal_v2" entry
    commit,              \* session -> position in the save handler, shifts_df_latest
    owner,               \* the session whose click the engine is serving
    report,              \* the message shown for the last generated proposal
    last_save,           \* history: the last save_csv(SHIFT_FILE) and what it replaced
    budget               \* clicks left: [ generate, manual ]

vars == << STAFF_DF, requests_df, existing_shifts_df, first_weekday, last_day,
           holiday_dates, assigned_count, new_shift_rows, combined, pc, idx,
           loop_left, assigned_today, sato_is_off, mode, cand, auto_df, run, inputs0,
           shifts_file, session_state, commit, owner, report, last_save, budget >>

\* the shift store and the sessions' handlers other than the generate handler
storeVars == << shifts_file, commit, owner, last_save, budget >>

inputVars == << STAFF_DF, requests_df, first_weekday, last_day, holiday_dates >>

\* ---------------------------------------------------------------------
\* Generic helpers
\* ---------------------------------------------------------------------
Range(s) == { s[i] : i \in 1..Len(s) }

InSeq(x, s) == \E i \in 1..Len(s) : s[i] = x

Max(a, b) == IF a >= b THEN a ELSE b

IdRank(sid) == CHOOSE i \in 1..Len(StaffIdOrder) : StaffIdOrder[i] = sid

Bool01(b) == IF b THEN 1 ELSE 0

\* Python tuple comparison of two 4-tuples of integers
KeyLess(a, b) ==
    \/ a[1] < b[1]
    \/ a[1] = b[1] /\ a[2] < b[2]
    \/ a[1] = b[1] /\ a[2] = b[2] /\ a[3] < b[3]
    \/ a[1] = b[1] /\ a[2] = b[2] /\ a[3] = b[3] /\ a[4] < b[4]

\* list.sort(key=...): a stable sort of rows carrying their key in field "key"
RECURSIVE InsertByKey(_, _)
InsertByKey(s, c) ==
    IF s = << >> THEN << c >>
    ELSE IF KeyLess(c.key, Head(s).key) THEN << c >> \o s
    ELSE << Head(s) >> \o InsertByKey(Tail(s), c)

RECURSIVE SortByKey(_)
SortByKey(s) ==
    IF s = << >> THEN << >>
    ELSE InsertByKey(SortByKey(SubSeq(s, 1, Len(s) - 1)), s[Len(s)])

\* ---------------------------------------------------------------------
\* Calendar utilities
\* ---------------------------------------------------------------------
Weekday(d) == (first_weekday + d - 1) % 7

date_range_for_month == [ i \in 1..last_day |-> i ]

is_weekend(d) == Weekday(d) >= 4

\* The source calls get_jp_holiday_name (Phase 2 and the calendar pages) but
\* holds no definition of it; it is modelled as the pure lookup date -> holiday
\* or none of the public-holiday calendar, given by holiday_dates.
get_jp_holiday_name(d) == d \in holiday_dates

\* ---------------------------------------------------------------------
\* Roster index
\* ---------------------------------------------------------------------
StaffIdsOfRole(role) ==
    LET rows == SelectSeq(STAFF_DF, LAMBDA r : r.role = role)
    IN  [ i \in 1..Len(rows) |-> rows[i].staff_id ]

employees == StaffIdsOfRole("employee")

parttimers == StaffIdsOfRole("parttime")

get_active_staff_ids == { r.staff_id : r \in Range(STAFF_DF) }

StaffRow(sid) == CHOOSE r \in Range(STAFF_DF) : r.staff_id = sid

position_map(sid) ==
    IF sid \in get_active_staff_ids THEN StaffRow(sid).position ELSE ""

is_kitchen_capable_for_day(sid, sato_off) ==
    IF sid = EMP_SATO_ID THEN FALSE
    ELSE IF sato_off /\ sid = MANAGER_ID THEN FALSE
    ELSE IF position_map(sid) \in { "chef", "kitchen", "allround" } THEN TRUE
    ELSE IF sid = MANAGER_ID THEN TRUE
    ELSE FALSE

\* a kitchen priority that recognises the 料理長 by the position tag
kitchen_priority_rankByTag(sid) ==
    IF position_map(sid) = "chef" THEN 0
    ELSE IF position_map(sid) = "kitchen" THEN 1
    ELSE IF position_map(sid) = "allround" THEN 2
    ELSE IF sid = MANAGER_ID THEN 3
    ELSE 9

kitchen_priority_rank(sid) ==
    IF sid = CHEF_ID THEN 0
    ELSE IF position_map(sid) = "kitchen" THEN 1
    ELSE IF position_map(sid) = "allround" THEN 2
    ELSE IF sid = MANAGER_ID THEN 3
    ELSE 9

counts_for_hall(sid) == position_map(sid) # "kitchen"

employee_dayoff_map(sid) ==
    IF sid \in get_active_staff_ids /\ StaffRow(sid).role = "employee"
    THEN { w \in { StaffRow(sid).dayoff1, StaffRow(sid).dayoff2 } : 0 <= w /\ w <= 6 }
    ELSE { }

max_shifts_per_person(sid) ==
    IF sid \in get_active_staff_ids
    THEN StaffRow(sid).desired_shifts_per_month
    ELSE 0

\* ---------------------------------------------------------------------
\* Availability index (req_by_date)
\* ---------------------------------------------------------------------
hope_set(d) ==
    { r.staff_id : r \in { q \in Range(requests_df) : q.date = d /\ q.request_type = "hope" } }

ng_set(d) ==
    { r.staff_id : r \in { q \in Range(requests_df) : q.date = d /\ q.request_type = "NG" } }

\* staff ids of the rows of a frame that fall on date d, in row order
StaffOnDate(df, d) ==
    LET rows == SelectSeq(df, LAMBDA r : r.date = d)
    IN  [ i \in 1..Len(rows) |-> rows[i].staff_id ]

\* assigned_count seeded without the confirmed shifts
SeedAssignedCountZero(df) == [ sid \in get_active_staff_ids |-> 0 ]

\* assigned_count as seeded from the confirmed shifts
SeedAssignedCount(df) ==
    [ sid \in get_active_staff_ids |->
        Cardinality({ i \in 1..Len(df) : df[i].staff_id = sid }) ]

AutoRow(d, sid) ==
    [ date |-> d, staff_id |-> sid, start_time |-> DEFAULT_OPEN_TIME,
      end_time |-> DEFAULT_CLOSE_TIME, source |-> "auto" ]

\* ---------------------------------------------------------------------
\* Candidate ranking
\* ---------------------------------------------------------------------
assigned_count_get(sid) ==
    IF sid \in DOMAIN assigned_count THEN assigned_count[sid] ELSE 0

\* make_employee_candidates without the test "already on the date"
EmployeeEligibleNoAssignedTest(sid, d, at, ng) ==
    /\ sid \notin ng
    /\ max_shifts_per_person(sid) - assigned_count_get(sid) > 0
    /\ Weekday(d) \notin employee_dayoff_map(sid)

\* make_employee_candidates with the cap test off by one (remaining < 0)
EmployeeEligibleCapOffByOne(sid, d, at, ng) ==
    /\ sid \notin ng
    /\ ~InSeq(sid, at)
    /\ max_shifts_per_person(sid) - assigned_count_get(sid) >= 0
    /\ Weekday(d) \notin employee_dayoff_map(sid)

\* exclusion rules of make_employee_candidates
EmployeeEligible(sid, d, at, ng) ==
    /\ sid \notin ng
    /\ ~InSeq(sid, at)
    /\ max_shifts_per_person(sid) - assigned_count_get(sid) > 0
    /\ Weekday(d) \notin employee_dayoff_map(sid)

\* sort key of make_employee_candidates
\* a Phase 1-2 sort key without the remaining capacity
EmployeeSortKeyNoCap(c) ==
    << Bool01(~c.is_hope), 0, c.assigned_count, IdRank(c.staff_id) >>

EmployeeSortKey(c) ==
    << Bool01(~c.is_hope), 0 - c.remaining_cap, c.assigned_count, IdRank(c.staff_id) >>

make_employee_candidates(d, at, hope, ng) ==
    LET elig == SelectSeq(employees, LAMBDA sid : EmployeeEligible(sid, d, at, ng))
        row(sid) == [ staff_id |-> sid,
                      is_hope |-> sid \in hope,
                      assigned_count |-> assigned_count_get(sid),
                      remaining_cap |-> max_shifts_per_person(sid) - assigned_count_get(sid) ]
        keyed == [ i \in 1..Len(elig) |->
                     [ key |-> EmployeeSortKey(row(elig[i])), c |-> row(elig[i]) ] ]
    IN  SortByKey(keyed)

\* make_any_candidates with the monthly cap test off by one (> for >=)
AnyEligibleCapOffByOne(sid, d, at, ng) ==
    /\ sid \notin ng
    /\ ~InSeq(sid, at)
    /\ ~(assigned_count_get(sid) > max_shifts_per_person(sid))
    /\ (InSeq(sid, employees) => Weekday(d) \notin employee_dayoff_map(sid))

\* make_any_candidates without the NG test
AnyEligibleNoNgTest(sid, d, at, ng) ==
    /\ ~InSeq(sid, at)
    /\ ~(assigned_count_get(sid) >= max_shifts_per_person(sid))
    /\ (InSeq(sid, employees) => Weekday(d) \notin employee_dayoff_map(sid))

\* make_any_candidates without the fixed-day-off test
AnyEligibleNoDayoffTest(sid, d, at, ng) ==
    /\ sid \notin ng
    /\ ~InSeq(sid, at)
    /\ ~(assigned_count_get(sid) >= max_shifts_per_person(sid))

\* exclusion rules of make_any_candidates, before the mode filter
AnyEligible(sid, d, at, ng) ==
    /\ sid \notin ng
    /\ ~InSeq(sid, at)
    /\ ~(assigned_count_get(sid) >= max_shifts_per_person(sid))
    /\ (InSeq(sid, employees) => Weekday(d) \notin employee_dayoff_map(sid))

\* mode filter of make_any_candidates
ModeFilter(sid, m, sato_off) ==
    IF m = "kitchen" THEN is_kitchen_capable_for_day(sid, sato_off)
    ELSE IF m = "hall" THEN counts_for_hall(sid)
    ELSE TRUE

\* sort key of make_any_candidates without the staff id as last component
AnySortKeyNoId(c, m) ==
    IF m = "kitchen"
    THEN << Bool01(~c.is_hope), kitchen_priority_rank(c.staff_id), c.assigned_count, 0 >>
    ELSE << Bool01(~c.is_hope), Bool01(c.is_employee), c.assigned_count, 0 >>

\* sort key of make_any_candidates
\* sort key of make_any_candidates with 社員 before アルバイト in hall and
\* generic mode
AnySortKeyCoreFirst(c, m) ==
    IF m = "kitchen"
    THEN << Bool01(~c.is_hope), kitchen_priority_rank(c.staff_id),
            c.assigned_count, IdRank(c.staff_id) >>
    ELSE << Bool01(~c.is_hope), Bool01(~c.is_employee),
            c.assigned_count, IdRank(c.staff_id) >>

\* sort key of make_any_candidates without the 希望 flag as first component
AnySortKeyNoHope(c, m) ==
    IF m = "kitchen"
    THEN << 0, kitchen_priority_rank(c.staff_id), c.assigned_count, IdRank(c.staff_id) >>
    ELSE << 0, Bool01(c.is_employee), c.assigned_count, IdRank(c.staff_id) >>

AnySortKey(c, m) ==
    IF m = "kitchen"
    THEN << Bool01(~c.is_hope), kitchen_priority_rank(c.staff_id),
            c.assigned_count, IdRank(c.staff_id) >>
    ELSE << Bool01(~c.is_hope), Bool01(c.is_employee),
            c.assigned_count, IdRank(c.staff_id) >>

make_any_candidates(d, at, hope, ng, m, sato_off) ==
    LET elig == SelectSeq(employees \o parttimers,
                          LAMBDA sid : AnyEligible(sid, d, at, ng) /\ ModeFilter(sid, m, sato_off))
        row(sid) == [ staff_id |-> sid,
                      is_employee |-> InSeq(sid, employees),
                      is_hope |-> sid \in hope,
                      assigned_count |-> assigned_count_get(sid),
                      pos |-> position_map(sid) ]
        keyed == [ i \in 1..Len(elig) |->
                     [ key |-> AnySortKey(row(elig[i]), m), c |-> row(elig[i]) ] ]
    IN  SortByKey(keyed)

\* ---------------------------------------------------------------------
\* Allocation engine
\* ---------------------------------------------------------------------
DatesOfWeekday(w) == SelectSeq(date_range_for_month, LAMBDA d : Weekday(d) = w)

fridays == DatesOfWeekday(4)

saturdays == DatesOfWeekday(5)

sundays == DatesOfWeekday(6)

holiday_weekdays ==
    SelectSeq(date_range_for_month, LAMBDA d : get_jp_holiday_name(d) /\ Weekday(d) <= 3)

\* the premium dates in calendar order
Phase2DatesCalendarOrder ==
    SelectSeq(date_range_for_month,
              LAMBDA d : Weekday(d) >= 4 \/ (get_jp_holiday_name(d) /\ Weekday(d) <= 3))

Phase2Dates == fridays \o saturdays \o sundays \o holiday_weekdays

PhaseDates == IF pc = "phase2" THEN Phase2Dates ELSE date_range_for_month

\* an engine that appends each new row to the confirmed frame it was given
InputsAliased ==
    /\ existing_shifts_df' =
          existing_shifts_df \o SubSeq(new_shift_rows', Len(new_shift_rows) + 1,
                                       Len(new_shift_rows'))
    /\ UNCHANGED << STAFF_DF, requests_df, first_weekday,
                    last_day, holiday_dates, run, inputs0 >>
    /\ UNCHANGED storeVars

\* the engine reads its inputs and never writes them (the frames it builds,
\* assigned_today and combined, are fresh objects)
InputsUntouched ==
    /\ UNCHANGED << STAFF_DF, requests_df, existing_shifts_df, first_weekday,
                    last_day, holiday_dates, run, inputs0 >>
    /\ UNCHANGED storeVars

\* assign_employees_for_day, up to the start of its loop
AssignEmployeesEnter ==
    /\ pc \in { "phase1", "phase2" }
    /\ loop_left = 0
    /\ idx <= Len(PhaseDates)
    /\ LET d == PhaseDates[idx]
           target_emp == IF pc = "phase1" THEN 2 ELSE 3
           at == StaffOnDate(existing_shifts_df, d) \o StaffOnDate(new_shift_rows, d)
           current_emp == Cardinality({ i \in 1..Len(at) : InSeq(at[i], employees) })
           need == Max(target_emp - current_emp, 0)
       IN  IF need <= 0
           THEN /\ idx' = idx + 1
                /\ UNCHANGED << loop_left, assigned_today >>
           ELSE /\ idx' = idx
                /\ loop_left' = need
                /\ assigned_today' = at
    /\ UNCHANGED << assigned_count, new_shift_rows, combined, pc, sato_is_off, mode, cand, auto_df,
                    session_state, report >>
    /\ InputsUntouched

\* one iteration of the loop of assign_employees_for_day
AssignEmployeesIter ==
    /\ pc \in { "phase1", "phase2" }
    /\ loop_left > 0
    /\ LET d == PhaseDates[idx]
           c == make_employee_candidates(d, assigned_today, hope_set(d), ng_set(d))
       IN  /\ cand' = c
           /\ IF c = << >>
              THEN /\ loop_left' = 0
                   /\ idx' = idx + 1
                   /\ assigned_today' = << >>
                   /\ UNCHANGED << assigned_count, new_shift_rows >>
              ELSE LET sid == c[1].c.staff_id
                   IN  /\ assigned_count' =
                             [ assigned_count EXCEPT ![sid] = assigned_count_get(sid) + 1 ]
                       /\ new_shift_rows' = Append(new_shift_rows, AutoRow(d, sid))
                       /\ loop_left' = loop_left - 1
                       /\ idx' = IF loop_left = 1 THEN idx + 1 ELSE idx
                       /\ assigned_today' =
                             IF loop_left = 1 THEN << >> ELSE Append(assigned_today, sid)
    /\ UNCHANGED << combined, pc, sato_is_off, mode, auto_df,
                    session_state, report >>
    /\ InputsUntouched

\* Phase 1 has visited every date
StartPhase2 ==
    /\ pc = "phase1"
    /\ loop_left = 0
    /\ idx > Len(PhaseDates)
    /\ pc' = "phase2"
    /\ idx' = 1
    /\ UNCHANGED << assigned_count, new_shift_rows, combined, loop_left,
                    assigned_today, sato_is_off, mode, cand, auto_df,
                    session_state, report >>
    /\ InputsUntouched

\* Phase 2 has visited every premium date: build combined
StartPhase3 ==
    /\ pc = "phase2"
    /\ loop_left = 0
    /\ idx > Len(PhaseDates)
    /\ pc' = "phase3"
    /\ idx' = 1
    /\ combined' = existing_shifts_df \o new_shift_rows
    /\ UNCHANGED << assigned_count, new_shift_rows, loop_left,
                    assigned_today, sato_is_off, mode, cand, auto_df,
                    session_state, report >>
    /\ InputsUntouched

\* a fill that asks for the whole headcount whoever is already on the date
remainingIgnoringAssigned(required_staff, at) == required_staff

\* a fill that asks every date for the Friday-Sunday headcount
remainingWeekend(required_staff, at) == Max(WEEKEND_REQUIRED_STAFF - Len(at), 0)

\* remaining = max(required_staff - current_count, 0)
remaining(required_staff, at) == Max(required_staff - Len(at), 0)

\* Phase 3, one date, up to the start of its loop
FillDayEnter ==
    /\ pc = "phase3"
    /\ loop_left = 0
    /\ idx <= Len(PhaseDates)
    /\ LET d == PhaseDates[idx]
           required_staff == IF is_weekend(d) THEN WEEKEND_REQUIRED_STAFF
                             ELSE WEEKDAY_REQUIRED_STAFF
           at == StaffOnDate(combined, d)
           rem == remaining(required_staff, at)
       IN  IF rem <= 0
           THEN /\ idx' = idx + 1
                /\ UNCHANGED << loop_left, assigned_today, sato_is_off >>
           ELSE /\ idx' = idx
                /\ loop_left' = rem
                /\ assigned_today' = at
                /\ sato_is_off' = ~InSeq(EMP_SATO_ID, at)
    /\ UNCHANGED << assigned_count, new_shift_rows, combined, pc, mode, cand, auto_df,
                    session_state, report >>
    /\ InputsUntouched

\* a mode choice that looks at the hall before the kitchen
ChooseModeHallFirst(at) ==
    LET kitchen_count ==
            Cardinality({ i \in 1..Len(at) : is_kitchen_capable_for_day(at[i], FALSE) })
        hall_count == Cardinality({ i \in 1..Len(at) : counts_for_hall(at[i]) })
    IN  IF 3 - hall_count > 0 THEN "hall"
        ELSE IF 2 - kitchen_count > 0 THEN "kitchen"
        ELSE "any"

\* mode choice of one Phase 3 iteration
ChooseMode(at) ==
    LET kitchen_count ==
            Cardinality({ i \in 1..Len(at) : is_kitchen_capable_for_day(at[i], FALSE) })
        hall_count == Cardinality({ i \in 1..Len(at) : counts_for_hall(at[i]) })
        need_kitchen == Max(2 - kitchen_count, 0)
        need_hall == Max(3 - hall_count, 0)
    IN  IF need_kitchen > 0 THEN "kitchen"
        ELSE IF need_hall > 0 THEN "hall"
        ELSE "any"

\* one iteration of the Phase 3 loop of a date
FillDayIter ==
    /\ pc = "phase3"
    /\ loop_left > 0
    /\ LET d == PhaseDates[idx]
           m == ChooseMode(assigned_today)
           c == make_any_candidates(d, assigned_today, hope_set(d), ng_set(d), m, sato_is_off)
       IN  /\ mode' = m
           /\ cand' = c
           /\ IF c = << >>
              THEN /\ loop_left' = 0
                   /\ idx' = idx + 1
                   /\ assigned_today' = << >>
                   /\ UNCHANGED << assigned_count, new_shift_rows >>
              ELSE LET sid == c[1].c.staff_id
                   IN  /\ assigned_count' =
                             [ assigned_count EXCEPT ![sid] = assigned_count_get(sid) + 1 ]
                       /\ new_shift_rows' = Append(new_shift_rows, AutoRow(d, sid))
                       /\ loop_left' = loop_left - 1
                       /\ idx' = IF loop_left = 1 THEN idx + 1 ELSE idx
                       /\ assigned_today' =
                             IF loop_left = 1 THEN << >> ELSE Append(assigned_today, sid)
    /\ UNCHANGED << combined, pc, sato_is_off, auto_df,
                    session_state, report >>
    /\ InputsUntouched

\* a shortage check whose Core threshold is 3 on Fridays, Saturdays, Sundays
\* and Monday-Thursday holidays
shortage_daysPremiumCore ==
    { d \in 1..last_day :
        LET day_shifts == StaffOnDate(existing_shifts_df, d)
            current_emp_count ==
                Cardinality({ i \in 1..Len(day_shifts) : InSeq(day_shifts[i], employees) })
        IN  \/ Len(day_shifts) < (IF is_weekend(d) THEN WEEKEND_REQUIRED_STAFF
                                  ELSE WEEKDAY_REQUIRED_STAFF)
            \/ current_emp_count < (IF is_weekend(d) \/ get_jp_holiday_name(d)
                                    THEN 3 ELSE REQUIRED_EMPLOYEES) }

\* page_auto_scheduler: the dates of the month short of staff, computed from
\* existing_month_shifts (the frame the engine is given)
shortage_days ==
    { d \in 1..last_day :
        LET required_staff == IF is_weekend(d) THEN WEEKEND_REQUIRED_STAFF
                              ELSE WEEKDAY_REQUIRED_STAFF
            day_shifts == StaffOnDate(existing_shifts_df, d)
            current_count == Len(day_shifts)
            current_emp_count ==
                Cardinality({ i \in 1..Len(day_shifts) : InSeq(day_shifts[i], employees) })
        IN  current_count < required_staff \/ current_emp_count < REQUIRED_EMPLOYEES }

\* return pd.DataFrame(new_shift_rows); the generate handler keeps the result
\* in its session and shows its message
Return ==
    /\ pc = "phase3"
    /\ loop_left = 0
    /\ idx > Len(PhaseDates)
    /\ pc' = "done"
    /\ auto_df' = new_shift_rows
    /\ session_state' =
          [ session_state EXCEPT ![owner] = [ set |-> TRUE, df |-> new_shift_rows ] ]
    /\ report' = IF new_shift_rows = << >>
                 THEN (IF shortage_days # { } THEN "stuck" ELSE "sufficient")
                 ELSE "generated"
    /\ UNCHANGED << assigned_count, new_shift_rows, combined, idx, loop_left,
                    assigned_today, sato_is_off, mode, cand >>
    /\ InputsUntouched

\* The caller runs the engine again with the confirmed shifts replaced by
\* confirmed + previous proposal, roster and availability unchanged.
RerunOnMerged ==
    /\ pc = "done"
    /\ run = 1
    /\ run' = 2
    /\ existing_shifts_df' = existing_shifts_df \o auto_df
    /\ inputs0' = [ inputs0 EXCEPT !.existing_shifts_df = existing_shifts_df' ]
    /\ assigned_count' = SeedAssignedCount(existing_shifts_df')
    /\ new_shift_rows' = << >>
    /\ combined' = << >>
    /\ pc' = "phase1"
    /\ idx' = 1
    /\ loop_left' = 0
    /\ assigned_today' = << >>
    /\ sato_is_off' = FALSE
    /\ mode' = ""
    /\ cand' = << >>
    /\ UNCHANGED << auto_df, session_state, report >>
    /\ UNCHANGED inputVars
    /\ UNCHANGED storeVars

Next ==
    \/ AssignEmployeesEnter
    \/ AssignEmployeesIter
    \/ StartPhase2
    \/ StartPhase3
    \/ FillDayEnter
    \/ FillDayIter
    \/ Return
    \/ RerunOnMerged

\* ---------------------------------------------------------------------
\* Explored inputs
\* ---------------------------------------------------------------------
Staff(sid, role, position, d1, d2, cap) ==
    [ staff_id |-> sid, role |-> role, position |-> position,
      dayoff1 |-> d1, dayoff2 |-> d2, desired_shifts_per_month |-> cap ]

Shift(d, sid, st, src) ==
    [ date |-> d, staff_id |-> sid, start_time |-> st,
      end_time |-> DEFAULT_CLOSE_TIME, source |-> src ]

Request(d, sid, type) == [ date |-> d, staff_id |-> sid, request_type |-> type ]

\* a full roster whose caps bind; A004 has no cap entered (NaN -> 0)
RosterFull ==
    << Staff("S001", "employee", "manager", -1, -1, 2),
       Staff("S002", "employee", "chef", 0, -1, 3),
       Staff("S003", "employee", "employee", 3, 6, 3),
       Staff("S004", "employee", "employee", 4, -1, 1),
       Staff("A001", "parttime", "kitchen", -1, -1, 2),
       Staff("A002", "parttime", "hall", -1, -1, 3),
       Staff("A003", "parttime", "allround", -1, -1, 1),
       Staff("A004", "parttime", "allround", -1, -1, 0) >>

\* enough staff with generous caps, kitchen-capable staff included
RosterAmple ==
    << Staff("S001", "employee", "manager", -1, -1, 9),
       Staff("S002", "employee", "chef", -1, -1, 9),
       Staff("S003", "employee", "employee", -1, -1, 9),
       Staff("A001", "parttime", "kitchen", -1, -1, 9),
       Staff("A002", "parttime", "hall", -1, -1, 9),
       Staff("A003", "parttime", "allround", -1, -1, 9),
       Staff("A005", "parttime", "hall", -1, -1, 9) >>

\* enough staff with generous caps, nobody kitchen-capable
RosterHall ==
    << Staff("S003", "employee", "employee", -1, -1, 9),
       Staff("S004", "employee", "employee", -1, -1, 9),
       Staff("S005", "employee", "employee", -1, -1, 9),
       Staff("A002", "parttime", "hall", -1, -1, 9),
       Staff("A005", "parttime", "hall", -1, -1, 9),
       Staff("A006", "parttime", "hall", -1, -1, 9) >>

\* a roster too small for any minimum
RosterTiny ==
    << Staff("S001", "employee", "manager", 4, 5, 1),
       Staff("A003", "parttime", "allround", -1, -1, 2) >>

Rosters == { RosterFull, RosterAmple, RosterHall, RosterTiny }

\* rows the shift store may hold for the month (manual entries are neither
\* capped nor checked for duplicates)
ExistingPool ==
    << Shift(1, "S001", "17:00", "manual"),
       Shift(1, "A002", "17:00", "manual"),
       Shift(1, "A002", "18:00", "manual"),
       Shift(2, "S003", "17:00", "auto"),
       Shift(2, "A004", "17:00", "manual") >>

RequestPool ==
    << Request(1, "S002", "NG"),
       Request(1, "A003", "hope"),
       Request(2, "A002", "NG"),
       Request(3, "S003", "hope") >>

FirstWeekdays == { 2, 5 }

HolidaySets == { { }, { 2 } }

\* the rows of pool whose index is in S, in pool order
RECURSIVE PickRows(_, _, _)
PickRows(pool, S, i) ==
    IF i > Len(pool) THEN << >>
    ELSE (IF i \in S THEN << pool[i] >> ELSE << >>) \o PickRows(pool, S, i + 1)

\* a page that hands every row of the store to the engine
ExistingMonthShiftsAllStaff(shifts_df, roster) == shifts_df

\* page_auto_scheduler: existing_month_shifts keeps the rows of active staff
ExistingMonthShifts(shifts_df, roster) ==
    SelectSeq(shifts_df, LAMBDA r : r.staff_id \in { w.staff_id : w \in Range(roster) })

Sessions == { 1, 2 }

NoProposal == [ set |-> FALSE, df |-> << >> ]

NoSave == [ kind |-> "none", by |-> 0, n |-> 0,
            before |-> << >>, latest |-> << >>, proposal |-> << >>,
            committed |-> [ s \in Sessions |-> { } ] ]

\* no session has a proposal or is in its save handler; nothing was saved
PageStart ==
    /\ session_state = [ s \in Sessions |-> NoProposal ]
    /\ commit = [ s \in Sessions |-> [ pc |-> "idle", shifts_df_latest |-> << >> ] ]
    /\ owner = 1
    /\ report = ""
    /\ last_save = NoSave

\* the engine's locals when it is called
EngineLocalsStart ==
    /\ assigned_count = SeedAssignedCount(existing_shifts_df)
    /\ new_shift_rows = << >>
    /\ combined = << >>
    /\ pc = "phase1"
    /\ idx = 1
    /\ loop_left = 0
    /\ assigned_today = << >>
    /\ sato_is_off = FALSE
    /\ mode = ""
    /\ cand = << >>
    /\ auto_df = << >>
    /\ run = 1
    /\ inputs0 = [ STAFF_DF |-> STAFF_DF, requests_df |-> requests_df,
                   existing_shifts_df |-> existing_shifts_df ]

\* session 1 has clicked generate: the engine starts on what the page loaded
\* (the store is followed no further than the rows handed to the engine)
EngineStart ==
    /\ shifts_file = existing_shifts_df
    /\ budget = [ generate |-> 0, manual |-> 0 ]
    /\ PageStart
    /\ EngineLocalsStart

Init ==
    /\ STAFF_DF \in Rosters
    /\ requests_df \in { PickRows(RequestPool, S, 1) : S \in SUBSET (1..Len(RequestPool)) }
    /\ existing_shifts_df \in
          { ExistingMonthShifts(PickRows(ExistingPool, S, 1), STAFF_DF) :
              S \in SUBSET (1..Len(ExistingPool)) }
    /\ first_weekday \in FirstWeekdays
    /\ last_day = NumDays
    /\ holiday_dates \in HolidaySets
    /\ EngineStart

Spec == Init /\ [][Next]_vars

\* rosters in which a 社員 other than S002 holds the position 料理長 (the staff
\* page offers 店長, 料理長 and 社員 to every 社員)
RosterSecondChef ==
    << Staff("S001", "employee", "manager", -1, -1, 9),
       Staff("S002", "employee", "chef", -1, -1, 9),
       Staff("S003", "employee", "employee", -1, -1, 9),
       Staff("S004", "employee", "chef", -1, -1, 9),
       Staff("A001", "parttime", "kitchen", -1, -1, 9),
       Staff("A002", "parttime", "hall", -1, -1, 9),
       Staff("A003", "parttime", "allround", -1, -1, 9) >>

RosterOtherChef ==
    << Staff("S001", "employee", "manager", -1, -1, 9),
       Staff("S003", "employee", "employee", -1, -1, 9),
       Staff("S004", "employee", "chef", -1, -1, 9),
       Staff("A001", "parttime", "kitchen", -1, -1, 9),
       Staff("A002", "parttime", "hall", -1, -1, 9),
       Staff("A003", "parttime", "allround", -1, -1, 9),
       Staff("A005", "parttime", "hall", -1, -1, 9) >>

InitChefs ==
    /\ STAFF_DF \in { RosterSecondChef, RosterOtherChef }
    /\ requests_df \in { PickRows(RequestPool, S, 1) : S \in SUBSET (1..Len(RequestPool)) }
    /\ existing_shifts_df \in
          { ExistingMonthShifts(PickRows(ExistingPool, S, 1), STAFF_DF) :
              S \in SUBSET (1..Len(ExistingPool)) }
    /\ first_weekday \in FirstWeekdays
    /\ last_day = NumDays
    /\ holiday_dates \in HolidaySets
    /\ EngineStart

SpecChefs == InitChefs /\ [][Next]_vars

\* one step of a call of auto_assign_shifts_for_month
EngineStep ==
    \/ AssignEmployeesEnter
    \/ AssignEmployeesIter
    \/ StartPhase2
    \/ StartPhase3
    \/ FillDayEnter
    \/ FillDayIter
    \/ Return

\* The engine is one synchronous function call: once called it keeps taking
\* steps until it returns, and the caller need not call it a second time.
\* This is WF_vars(EngineStep), that is
\*   []<>(~ENABLED <<EngineStep>>_vars) \/ []<><<EngineStep>>_vars,
\* with ENABLED <<EngineStep>>_vars written as the guard it amounts to: the
\* call has not returned.
EngineFairness == []<>(pc = "done") \/ []<><<EngineStep>>_vars

SpecFair == Init /\ [][Next]_vars /\ EngineFairness

\* the February scenario: 28 days, nothing confirmed, no availability entry,
\* 3 Core workers (cap 20, no fixed day off), 5 Flexible all-round workers (cap 15)
RosterFeb ==
    << Staff("S001", "employee", "manager", -1, -1, 20),
       Staff("S002", "employee", "chef", -1, -1, 20),
       Staff("S003", "employee", "employee", -1, -1, 20),
       Staff("A001", "parttime", "allround", -1, -1, 15),
       Staff("A002", "parttime", "allround", -1, -1, 15),
       Staff("A003", "parttime", "allround", -1, -1, 15),
       Staff("A004", "parttime", "allround", -1, -1, 15),
       Staff("A005", "parttime", "allround", -1, -1, 15) >>

InitFeb ==
    /\ STAFF_DF = RosterFeb
    /\ requests_df = << >>
    /\ existing_shifts_df = << >>
    /\ first_weekday \in 0..6
    /\ last_day = 28
    /\ holiday_dates \in { { }, { 11, 23 } }
    /\ EngineStart

SpecFeb == InitFeb /\ [][Next]_vars

\* a month whose dates are, each on its own, unstaffed, staffed to the
\* headcount with two Core workers, or staffed to the headcount with three
StaffedLevels == { "none", "core2", "core3" }

StaffedIds(level) ==
    IF level = "core3" THEN << "S001", "S002", "S003", "A001", "A002", "A003" >>
    ELSE IF level = "core2" THEN << "S001", "S003", "A001", "A002", "A003", "A005" >>
    ELSE << >>

RECURSIVE StaffedRows(_, _)
StaffedRows(level, d) ==
    IF d > NumDays THEN << >>
    ELSE [ i \in 1..Len(StaffedIds(level[d])) |->
             Shift(d, StaffedIds(level[d])[i], DEFAULT_OPEN_TIME, "manual") ]
         \o StaffedRows(level, d + 1)

StaffedRequestPool ==
    << Request(1, "S002", "NG"),
       Request(3, "A003", "NG") >>

\* a roster whose only kitchen-capable worker is A003
RosterOneCook ==
    << Staff("S003", "employee", "employee", -1, -1, 9),
       Staff("S004", "employee", "employee", -1, -1, 9),
       Staff("A002", "parttime", "hall", -1, -1, 9),
       Staff("A003", "parttime", "allround", -1, -1, 9),
       Staff("A005", "parttime", "hall", -1, -1, 9) >>

\* a roster whose only kitchen-capable worker, A004, is on no prefilled date
RosterSpareCook ==
    << Staff("S003", "employee", "employee", -1, -1, 9),
       Staff("S004", "employee", "employee", -1, -1, 9),
       Staff("A002", "parttime", "hall", -1, -1, 9),
       Staff("A004", "parttime", "allround", -1, -1, 9),
       Staff("A005", "parttime", "hall", -1, -1, 9) >>

\* a roster in which Phase 1 prefers S004 and S005 to S003 (more remaining
\* capacity), so that S003 is still free when Phase 3 fills the kitchen, and
\* in which S003 is the only worker left who counts for the hall
RosterSatoSpare ==
    << Staff("S003", "employee", "employee", -1, -1, 8),
       Staff("S004", "employee", "employee", -1, -1, 9),
       Staff("S005", "employee", "employee", -1, -1, 9),
       Staff("A001", "parttime", "kitchen", -1, -1, 9),
       Staff("A007", "parttime", "kitchen", -1, -1, 9) >>

InitStaffed ==
    /\ STAFF_DF \in { RosterAmple, RosterTiny, RosterOneCook, RosterSpareCook,
                     RosterSatoSpare }
    /\ requests_df \in
          { PickRows(StaffedRequestPool, S, 1) : S \in SUBSET (1..Len(StaffedRequestPool)) }
    /\ existing_shifts_df \in
          { ExistingMonthShifts(StaffedRows(level, 1), STAFF_DF) :
              level \in [ 1..NumDays -> StaffedLevels ] }
    /\ first_weekday \in FirstWeekdays
    /\ last_day = NumDays
    /\ holiday_dates \in HolidaySets
    /\ EngineStart

SpecStaffed == InitStaffed /\ [][Next]_vars

\* ---------------------------------------------------------------------
\* Records of workers who are not on the roster (deleted staff): the run of
\* a click, then the run of a second click on the same store and
\* availability entries less one such record.
\* ---------------------------------------------------------------------
IsUnknown(sid) == sid \notin get_active_staff_ids

RemoveAt(df, i) == SubSeq(df, 1, i - 1) \o SubSeq(df, i + 1, Len(df))

RerunWithoutRecord ==
    /\ pc = "done"
    /\ run = 1
    /\ \/ \E i \in 1..Len(shifts_file) :
             /\ IsUnknown(shifts_file[i].staff_id)
             /\ shifts_file' = RemoveAt(shifts_file, i)
             /\ UNCHANGED requests_df
       \/ \E i \in 1..Len(requests_df) :
             /\ IsUnknown(requests_df[i].staff_id)
             /\ requests_df' = RemoveAt(requests_df, i)
             /\ UNCHANGED shifts_file
    /\ run' = 2
    /\ owner' = 2
    /\ existing_shifts_df' = ExistingMonthShifts(shifts_file', STAFF_DF)
    /\ inputs0' = [ STAFF_DF |-> STAFF_DF, requests_df |-> requests_df',
                    existing_shifts_df |-> existing_shifts_df' ]
    /\ assigned_count' = SeedAssignedCount(existing_shifts_df')
    /\ new_shift_rows' = << >>
    /\ combined' = << >>
    /\ pc' = "phase1"
    /\ idx' = 1
    /\ loop_left' = 0
    /\ assigned_today' = << >>
    /\ sato_is_off' = FALSE
    /\ mode' = ""
    /\ cand' = << >>
    /\ UNCHANGED << auto_df, session_state, report, commit, last_save, budget >>
    /\ UNCHANGED << STAFF_DF, first_weekday, last_day, holiday_dates >>

NextUnknown ==
    \/ AssignEmployeesEnter
    \/ AssignEmployeesIter
    \/ StartPhase2
    \/ StartPhase3
    \/ FillDayEnter
    \/ FillDayIter
    \/ Return
    \/ RerunWithoutRecord

\* store rows and availability entries, some of workers on no explored roster
UnknownShiftPool ==
    << Shift(1, "A007", "17:00", "manual"),
       Shift(1, "S005", "17:00", "manual"),
       Shift(1, "S001", "17:00", "manual"),
       Shift(2, "A007", "17:00", "auto") >>

UnknownRequestPool ==
    << Request(1, "A007", "NG"),
       Request(2, "S005", "hope"),
       Request(1, "A003", "hope") >>

InitUnknown ==
    /\ STAFF_DF \in { RosterAmple, RosterFull }
    /\ requests_df \in
          { PickRows(UnknownRequestPool, S, 1) : S \in SUBSET (1..Len(UnknownRequestPool)) }
    /\ shifts_file \in
          { PickRows(UnknownShiftPool, S, 1) : S \in SUBSET (1..Len(UnknownShiftPool)) }
    /\ existing_shifts_df = ExistingMonthShifts(shifts_file, STAFF_DF)
    /\ first_weekday \in FirstWeekdays
    /\ last_day = NumDays
    /\ holiday_dates = { }
    /\ budget = [ generate |-> 0, manual |-> 0 ]
    /\ PageStart
    /\ EngineLocalsStart

SpecUnknown == InitUnknown /\ [][NextUnknown]_vars

\* The engine as the file has it: get_jp_holiday_name is called while the
\* list holiday_weekdays is built (line 1360) and is defined nowhere in the
\* file, so the first date of the month raises NameError once Phase 1 is
\* over; the exception leaves the engine and no proposal is returned.
RaiseNameError ==
    /\ pc = "phase1"
    /\ loop_left = 0
    /\ idx > Len(PhaseDates)
    /\ date_range_for_month # << >>
    /\ pc' = "raised"
    /\ UNCHANGED << assigned_count, new_shift_rows, combined, idx, loop_left,
                    assigned_today, sato_is_off, mode, cand, auto_df,
                    session_state, report >>
    /\ InputsUntouched

NextAsWritten ==
    \/ AssignEmployeesEnter
    \/ AssignEmployeesIter
    \/ RaiseNameError

SpecAsWritten == Init /\ [][NextAsWritten]_vars

\* ---------------------------------------------------------------------
\* The shift store and the sessions that generate, add by hand and save.
\* One engine serves the generate clicks one after the other: a run reads
\* only the frames loaded by its click, so overlapping runs of two sessions
\* behave as runs in sequence with the other handlers interleaved.
\* save_csv is one write of the whole frame (CSV file and sheet agree).
\* ---------------------------------------------------------------------
\* generate clicks and manual additions explored under SpecPage
MaxGenerate == 2
MaxManual == 1

engineVars == << existing_shifts_df, assigned_count, new_shift_rows, combined, pc, idx,
                 loop_left, assigned_today, sato_is_off, mode, cand, auto_df, run, inputs0 >>

PairOf(r) == << r.date, r.staff_id >>

\* a merge that keeps the first row of every (date, staff_id)
drop_duplicates_keep_first(df) ==
    PickRows(df, { i \in 1..Len(df) :
                     \A j \in 1..(i - 1) : PairOf(df[j]) # PairOf(df[i]) }, 1)

\* a merge that removes nothing
drop_duplicates_none(df) == df

\* df.drop_duplicates(subset=["date", "staff_id"], keep="last")
drop_duplicates(df) ==
    PickRows(df, { i \in 1..Len(df) :
                     \A j \in (i + 1)..Len(df) : PairOf(df[j]) # PairOf(df[i]) }, 1)

\* session s is inside the script run of its generate click
Busy(s) == owner = s /\ pc \notin { "idle", "done" }

\* generate click of session s: load the store, keep the rows of active
\* staff, start the engine on them
Generate(s) ==
    /\ pc \in { "idle", "done" }
    /\ commit[s].pc = "idle"
    /\ budget.generate > 0
    /\ budget' = [ budget EXCEPT !.generate = @ - 1 ]
    /\ owner' = s
    /\ run' = run + 1
    /\ existing_shifts_df' = ExistingMonthShifts(shifts_file, STAFF_DF)
    /\ inputs0' = [ STAFF_DF |-> STAFF_DF, requests_df |-> requests_df,
                    existing_shifts_df |-> existing_shifts_df' ]
    /\ assigned_count' = SeedAssignedCount(existing_shifts_df')
    /\ new_shift_rows' = << >>
    /\ combined' = << >>
    /\ pc' = "phase1"
    /\ idx' = 1
    /\ loop_left' = 0
    /\ assigned_today' = << >>
    /\ sato_is_off' = FALSE
    /\ mode' = ""
    /\ cand' = << >>
    /\ UNCHANGED << auto_df, session_state, report, shifts_file, commit, last_save >>
    /\ UNCHANGED inputVars

\* page_shift_calendar, "add shift" click of session s: the row is appended
\* to the loaded store and the store is saved; nothing is checked
ManualAdd(s, row) ==
    /\ ~Busy(s)
    /\ commit[s].pc = "idle"
    /\ budget.manual > 0
    /\ budget' = [ budget EXCEPT !.manual = @ - 1 ]
    /\ shifts_file' = Append(shifts_file, row)
    /\ last_save' = [ kind |-> "manual", by |-> s, n |-> last_save.n,
                      before |-> shifts_file, latest |-> shifts_file,
                      proposal |-> << row >>,
                      committed |-> last_save.committed ]
    /\ UNCHANGED << session_state, commit, owner, report >>
    /\ UNCHANGED engineVars
    /\ UNCHANGED inputVars

\* save click of session s, first half: reload the store
CommitLoad(s) ==
    /\ ~Busy(s)
    /\ commit[s].pc = "idle"
    /\ session_state[s].set
    /\ session_state[s].df # << >>
    /\ commit' = [ commit EXCEPT ![s] = [ pc |-> "loaded", shifts_df_latest |-> shifts_file ] ]
    /\ UNCHANGED << shifts_file, session_state, owner, report, last_save, budget >>
    /\ UNCHANGED engineVars
    /\ UNCHANGED inputVars

\* save click of session s, second half: concat, drop duplicates, save, and
\* drop the proposal from the session
CommitSave(s) ==
    /\ commit[s].pc = "loaded"
    /\ LET merged == drop_duplicates(commit[s].shifts_df_latest \o session_state[s].df)
       IN  /\ shifts_file' = merged
           /\ last_save' = [ kind |-> "commit", by |-> s, n |-> last_save.n + 1,
                             before |-> shifts_file,
                             latest |-> commit[s].shifts_df_latest,
                             proposal |-> session_state[s].df,
                             committed |->
                                [ last_save.committed EXCEPT
                                    ![s] = @ \cup { << r.date, r.staff_id >> :
                                                      r \in Range(session_state[s].df) } ] ]
    /\ session_state' = [ session_state EXCEPT ![s] = NoProposal ]
    /\ commit' = [ commit EXCEPT ![s] = [ pc |-> "idle", shifts_df_latest |-> << >> ] ]
    /\ UNCHANGED << owner, report, budget >>
    /\ UNCHANGED engineVars
    /\ UNCHANGED inputVars

\* rows a manual addition may write
ManualPool ==
    { Shift(1, "A003", "18:00", "manual"),
      Shift(2, "S001", "18:00", "manual") }

NextPage ==
    \/ AssignEmployeesEnter
    \/ AssignEmployeesIter
    \/ StartPhase2
    \/ StartPhase3
    \/ FillDayEnter
    \/ FillDayIter
    \/ Return
    \/ \E s \in Sessions : Generate(s)
    \/ \E s \in Sessions : \E row \in ManualPool : ManualAdd(s, row)
    \/ \E s \in Sessions : CommitLoad(s)
    \/ \E s \in Sessions : CommitSave(s)

RosterPage ==
    << Staff("S001", "employee", "manager", -1, -1, 3),
       Staff("S003", "employee", "employee", -1, -1, 3),
       Staff("A003", "parttime", "allround", -1, -1, 3) >>

\* what the store may hold when the sessions open: nothing, a manual row, or
\* two manual rows of the same worker and date
StoresAtStart ==
    { << >>,
      << Shift(1, "A003", "18:00", "manual") >>,
      << Shift(2, "S003", "17:00", "manual"), Shift(2, "S003", "18:00", "manual") >> }

InitPage ==
    /\ STAFF_DF = RosterPage
    /\ requests_df = << >>
    /\ first_weekday = 2
    /\ last_day = NumDays
    /\ holiday_dates = { }
    /\ shifts_file \in StoresAtStart
    /\ budget = [ generate |-> MaxGenerate, manual |-> MaxManual ]
    /\ PageStart
    /\ existing_shifts_df = << >>
    /\ assigned_count = SeedAssignedCount(<< >>)
    /\ new_shift_rows = << >>
    /\ combined = << >>
    /\ pc = "idle"
    /\ idx = 1
    /\ loop_left = 0
    /\ assigned_today = << >>
    /\ sato_is_off = FALSE
    /\ mode = ""
    /\ cand = << >>
    /\ auto_df = << >>
    /\ run = 0
    /\ inputs0 = [ STAFF_DF |-> STAFF_DF, requests_df |-> requests_df,
                   existing_shifts_df |-> existing_shifts_df ]

SpecPage == InitPage /\ [][NextPage]_vars

\* ---------------------------------------------------------------------
\* Derived views used by the properties
\* ---------------------------------------------------------------------
TypeOK ==
    /\ pc \in { "idle", "phase1", "phase2", "phase3", "done", "raised" }
    /\ loop_left >= 0
    /\ run \in 0..Max(2, MaxGenerate)

Pairs(df) == { << df[i].date, df[i].staff_id >> : i \in 1..Len(df) }

CountOf(df, sid) == Cardinality({ i \in 1..Len(df) : df[i].staff_id = sid })

\* staff ids on date d: confirmed rows, then proposed rows
AssignedOn(d) == StaffOnDate(existing_shifts_df, d) \o StaffOnDate(new_shift_rows, d)

TotalOn(d) == Len(AssignedOn(d))

CoreOn(d) == Cardinality({ i \in 1..Len(AssignedOn(d)) : InSeq(AssignedOn(d)[i], employees) })

total_min(d) == IF is_weekend(d) THEN WEEKEND_REQUIRED_STAFF ELSE WEEKDAY_REQUIRED_STAFF

core_min(d) ==
    IF Weekday(d) >= 4 \/ (get_jp_holiday_name(d) /\ Weekday(d) <= 3) THEN 3 ELSE 2

Days == 1..last_day

\* date d ended the run below its headcount minimum
Short(d) == TotalOn(d) < total_min(d)

\* ---------------------------------------------------------------------
\* C1  No double-booking: the proposal never holds two rows with the same
\*     (date, worker), and no proposed (date, worker) is a confirmed one.
\* ---------------------------------------------------------------------
C1_NoDoubleBooking ==
    /\ \A i, j \in 1..Len(new_shift_rows) :
          i # j => << new_shift_rows[i].date, new_shift_rows[i].staff_id >>
                     # << new_shift_rows[j].date, new_shift_rows[j].staff_id >>
    /\ Pairs(new_shift_rows) \cap Pairs(existing_shifts_df) = { }

\* a finished run in which a date is still short although a confirmed worker
\* of that date has capacity left and is neither blocked nor on a day off
C1_Witness ==
    /\ pc = "done"
    /\ \E d \in Days : \E sid \in get_active_staff_ids :
          /\ Short(d)
          /\ StaffOnDate(new_shift_rows, d) # << >>
          /\ InSeq(sid, StaffOnDate(existing_shifts_df, d))
          /\ AnyEligible(sid, d, << >>, ng_set(d))

\* ---------------------------------------------------------------------
\* C2  Capacity respected, as claimed: after a run every roster worker's
\*     confirmed + proposed count is at most the worker's monthly cap.
\* ---------------------------------------------------------------------
C2_CapacityRespected ==
    pc = "done" =>
        \A sid \in get_active_staff_ids :
            CountOf(existing_shifts_df, sid) + CountOf(new_shift_rows, sid)
                <= max_shifts_per_person(sid)

\* C2 as amended: a worker who is proposed at least once ends with
\* confirmed + proposed at most the monthly cap; a worker whose confirmed
\* count already reaches or exceeds the cap is proposed nothing.
C2_CapacityRespectedAmended ==
    \A sid \in get_active_staff_ids :
        CountOf(new_shift_rows, sid) > 0 =>
            CountOf(existing_shifts_df, sid) + CountOf(new_shift_rows, sid)
                <= max_shifts_per_person(sid)

\* a finished run in which a proposed worker sits exactly at the cap while a
\* date the worker could otherwise take is still short
C2_Witness ==
    /\ pc = "done"
    /\ \E d \in Days : \E sid \in get_active_staff_ids :
          /\ Short(d)
          /\ CountOf(new_shift_rows, sid) > 0
          /\ CountOf(existing_shifts_df, sid) + CountOf(new_shift_rows, sid)
                = max_shifts_per_person(sid)
          /\ ~InSeq(sid, AssignedOn(d))
          /\ sid \notin ng_set(d)
          /\ Weekday(d) \notin employee_dayoff_map(sid)
          /\ ModeFilter(sid, ChooseMode(AssignedOn(d)), ~InSeq(EMP_SATO_ID, AssignedOn(d)))

\* ---------------------------------------------------------------------
\* C3  Block respected: no proposed row names a worker who has an NG entry
\*     for the row's date.
\* ---------------------------------------------------------------------
C3_BlockRespected ==
    \A i \in 1..Len(new_shift_rows) :
        new_shift_rows[i].staff_id \notin ng_set(new_shift_rows[i].date)

\* a finished run in which a date is still short and a worker blocked on it
\* would otherwise have been a candidate of the date's mode
C3_Witness ==
    /\ pc = "done"
    /\ \E d \in Days : \E sid \in get_active_staff_ids :
          /\ Short(d)
          /\ sid \in ng_set(d)
          /\ AnyEligible(sid, d, AssignedOn(d), { })
          /\ ModeFilter(sid, ChooseMode(AssignedOn(d)), ~InSeq(EMP_SATO_ID, AssignedOn(d)))

\* ---------------------------------------------------------------------
\* C4  Fixed-day-off respected: no proposed row puts a Core worker on a date
\*     whose weekday is one of the worker's fixed days off.
\* ---------------------------------------------------------------------
C4_FixedDayOffRespected ==
    \A i \in 1..Len(new_shift_rows) :
        Weekday(new_shift_rows[i].date)
            \notin employee_dayoff_map(new_shift_rows[i].staff_id)

\* a finished run in which a date is still short and a Core worker on a fixed
\* day off has capacity left, is not blocked and is not on the date
C4_Witness ==
    /\ pc = "done"
    /\ \E d \in Days : \E sid \in get_active_staff_ids :
          /\ Short(d)
          /\ Weekday(d) \in employee_dayoff_map(sid)
          /\ sid \notin ng_set(d)
          /\ ~InSeq(sid, AssignedOn(d))
          /\ assigned_count_get(sid) < max_shifts_per_person(sid)
          /\ ModeFilter(sid, ChooseMode(AssignedOn(d)), ~InSeq(EMP_SATO_ID, AssignedOn(d)))

\* ---------------------------------------------------------------------
\* C5  Idempotence: the run on confirmed + previous proposal, with the same
\*     roster and availability, proposes nothing.
\* ---------------------------------------------------------------------
C5_Idempotence == run = 2 => new_shift_rows = << >>

\* the second run, after a non-empty first proposal, is inside the Phase 3
\* loop of a date the first run left short
C5_Witness ==
    /\ run = 2
    /\ auto_df # << >>
    /\ pc = "phase3"
    /\ loop_left > 0

\* ---------------------------------------------------------------------
\* C6  Minimum satisfaction when feasible: if every date has at least
\*     total_min workers, and at least core_min Core workers, who are not
\*     blocked, not on a fixed day off and whose cap cannot bind, then after
\*     the run every date has total_min assignments and core_min Core ones.
\* ---------------------------------------------------------------------
Uncapped(sid) ==
    max_shifts_per_person(sid) - CountOf(inputs0.existing_shifts_df, sid) >= last_day

Available(sid, d) ==
    /\ Uncapped(sid)
    /\ sid \notin ng_set(d)
    /\ Weekday(d) \notin employee_dayoff_map(sid)

Feasible ==
    \A d \in Days :
        /\ Cardinality({ sid \in get_active_staff_ids : Available(sid, d) }) >= total_min(d)
        /\ Cardinality({ sid \in get_active_staff_ids :
                            InSeq(sid, employees) /\ Available(sid, d) }) >= core_min(d)

C6_MinimumWhenFeasible ==
    (pc = "done" /\ run = 1 /\ Feasible) =>
        \A d \in Days : TotalOn(d) >= total_min(d) /\ CoreOn(d) >= core_min(d)

\* ---------------------------------------------------------------------
\* C7  Unresolved shortfall only when the pool is exhausted: after a run, a
\*     date below total_min has no roster worker who is unblocked, not yet
\*     on the date, under the cap and (Core) not on a fixed day off.
\* ---------------------------------------------------------------------
C7_ShortOnlyIfPoolExhausted ==
    pc = "done" =>
        \A d \in Days :
            Short(d) =>
                \A sid \in get_active_staff_ids :
                    ~AnyEligible(sid, d, AssignedOn(d), ng_set(d))

\* ---------------------------------------------------------------------
\* C8  February scenario, as claimed: every date reaches total_min and has
\*     at least 2 Core workers, 3 on every Friday, Saturday and Sunday, and
\*     no worker exceeds the cap.
\* ---------------------------------------------------------------------
CapsKept ==
    \A sid \in get_active_staff_ids :
        CountOf(existing_shifts_df, sid) + CountOf(new_shift_rows, sid)
            <= max_shifts_per_person(sid)

C8_FebruaryScenario ==
    pc = "done" =>
        /\ \A d \in Days :
              /\ TotalOn(d) >= total_min(d)
              /\ CoreOn(d) >= (IF Weekday(d) >= 4 THEN 3 ELSE 2)
        /\ CapsKept

\* C8 as amended: every date has 2 or 3 Core workers, exactly four dates
\* (each a Friday, Saturday, Sunday or weekday holiday) have 3 and at least
\* one Friday has 3, no worker exceeds the cap, the caps are used up (135
\* assignments in all), and some date stays below total_min.
C8_FebruaryScenarioAmended ==
    pc = "done" =>
        /\ \A d \in Days :
              /\ CoreOn(d) \in { 2, 3 }
              /\ CoreOn(d) = 3 => core_min(d) = 3
        /\ Cardinality({ d \in Days : CoreOn(d) = 3 }) = 4
        /\ \E d \in Days : Weekday(d) = 4 /\ CoreOn(d) = 3
        /\ CapsKept
        /\ Len(existing_shifts_df) + Len(new_shift_rows) = 135
        /\ \E d \in Days : Short(d)

\* the scenario's run has returned its proposal
C8_Witness ==
    /\ pc = "done"
    /\ run = 1
    /\ STAFF_DF = RosterFeb
    /\ last_day = 28
    /\ existing_shifts_df = << >>
    /\ requests_df = << >>
    /\ new_shift_rows # << >>

\* ---------------------------------------------------------------------
\* C9  Deterministic ordering: every selection is decided by a total order
\*     ending in the worker id, so the sorted candidate list of a selection
\*     is strictly ascending in its key and its head is the only minimum.
\* ---------------------------------------------------------------------
C9_DeterministicOrdering ==
    \A i \in 1..(Len(cand) - 1) : KeyLess(cand[i].key, cand[i + 1].key)

\* a selection whose first two candidates agree on every key component but
\* the worker id
C9_Witness ==
    /\ Len(cand) >= 2
    /\ \A k \in 1..3 : cand[1].key[k] = cand[2].key[k]
    /\ pc = "phase3"

\* ---------------------------------------------------------------------
\* C10 A run leaves its inputs unchanged: roster, availability entries and
\*     confirmed shifts are, at every point of a run, what they were when
\*     the run started.
\* ---------------------------------------------------------------------
C10_InputsUnchanged ==
    /\ STAFF_DF = inputs0.STAFF_DF
    /\ requests_df = inputs0.requests_df
    /\ existing_shifts_df = inputs0.existing_shifts_df

\* a finished run that read confirmed shifts and availability entries and
\* proposed rows
C10_Witness ==
    /\ pc = "done"
    /\ new_shift_rows # << >>
    /\ existing_shifts_df # << >>
    /\ requests_df # << >>

\* ---------------------------------------------------------------------
\* C11 Only shortfall is filled: a date whose confirmed assignments already
\*     reach total_min and its Core target (2, or 3 on a premium day) gets
\*     no proposed row; when every date is in that case the proposal is empty.
\* ---------------------------------------------------------------------
ConfirmedTotal(d) == Len(StaffOnDate(existing_shifts_df, d))

ConfirmedCore(d) ==
    Cardinality({ i \in 1..Len(existing_shifts_df) :
                    /\ existing_shifts_df[i].date = d
                    /\ InSeq(existing_shifts_df[i].staff_id, employees) })

ConfirmedComplete(d) ==
    /\ ConfirmedTotal(d) >= total_min(d)
    /\ ConfirmedCore(d) >= core_min(d)

C11_OnlyShortfallFilled ==
    /\ \A d \in Days : ConfirmedComplete(d) => StaffOnDate(new_shift_rows, d) = << >>
    /\ (\A d \in Days : ConfirmedComplete(d)) => new_shift_rows = << >>

\* a finished first run that left a complete premium date alone and
\* proposed rows for another date
C11_Witness ==
    /\ pc = "done"
    /\ run = 1
    /\ \E d \in Days : ConfirmedComplete(d) /\ core_min(d) = 3
    /\ new_shift_rows # << >>

\* ---------------------------------------------------------------------
\* C12 Commit never alters a pre-existing assignment: every record of the
\*     store immediately before a commit's save is in the store after it,
\*     with the same start time, end time and provenance.
\* ---------------------------------------------------------------------
C12_CommitKeepsExisting ==
    last_save.kind = "commit" =>
        \A i \in 1..Len(last_save.before) :
            \E j \in 1..Len(shifts_file) : shifts_file[j] = last_save.before[i]

\* ---------------------------------------------------------------------
\* C13 Commit merge: the store written by a commit holds, for every
\*     (date, worker) of reloaded store + proposal, exactly one record, the
\*     last one of that pair in the concatenation, and nothing else; the
\*     records stand in the order of the concatenation.
\* ---------------------------------------------------------------------
LastIdx(df, p) ==
    CHOOSE i \in 1..Len(df) :
        /\ PairOf(df[i]) = p
        /\ \A j \in (i + 1)..Len(df) : PairOf(df[j]) # p

C13_CommitMerge ==
    last_save.kind = "commit" =>
        LET cc == last_save.latest \o last_save.proposal
        IN  /\ Pairs(shifts_file) = Pairs(cc)
            /\ \A p \in Pairs(cc) :
                  /\ Cardinality({ i \in 1..Len(shifts_file) : PairOf(shifts_file[i]) = p }) = 1
                  /\ \E i \in 1..Len(shifts_file) : shifts_file[i] = cc[LastIdx(cc, p)]
            /\ \A i, j \in 1..Len(shifts_file) :
                  i < j => LastIdx(cc, PairOf(shifts_file[i]))
                             < LastIdx(cc, PairOf(shifts_file[j]))

\* a commit whose reloaded store held a row of a proposed (date, worker)
\* with another start time, and two rows of one (date, worker)
C13_Witness ==
    /\ last_save.kind = "commit"
    /\ \E i \in 1..Len(last_save.latest) : \E j \in 1..Len(last_save.proposal) :
          /\ PairOf(last_save.latest[i]) = PairOf(last_save.proposal[j])
          /\ last_save.latest[i] # last_save.proposal[j]
    /\ \E i, j \in 1..Len(last_save.latest) :
          i # j /\ PairOf(last_save.latest[i]) = PairOf(last_save.latest[j])

\* ---------------------------------------------------------------------
\* C14 No double-booking under concurrent commits: after every save of a
\*     commit, however the loads and saves of the sessions interleave, the
\*     store holds no two records with the same (date, worker).
\* ---------------------------------------------------------------------
C14_NoDoubleBookingAfterCommit ==
    last_save.kind = "commit" =>
        \A i, j \in 1..Len(shifts_file) :
            i # j => PairOf(shifts_file[i]) # PairOf(shifts_file[j])

\* the second commit saved over a store that the other session's commit had
\* written after this commit's reload, both proposals holding the same pair
C14_Witness ==
    /\ last_save.kind = "commit"
    /\ last_save.n = 2
    /\ \E i \in 1..Len(last_save.before) :
          /\ last_save.before[i].source = "auto"
          /\ ~InSeq(last_save.before[i], last_save.latest)
          /\ PairOf(last_save.before[i]) \in Pairs(last_save.proposal)

\* ---------------------------------------------------------------------
\* C15 No exception on shortfall: whatever the roster, the confirmed set and
\*     the availability set, a run goes through its three phases and
\*     returns a proposal; it never ends by raising.
\* ---------------------------------------------------------------------
C15_NoException == pc # "raised"

\* ---------------------------------------------------------------------
\* C16 Unknown worker ids have no influence: the proposal of a run equals
\*     the proposal of the run on the same store and availability entries
\*     with one record of a worker absent from the roster removed.
\* ---------------------------------------------------------------------
C16_UnknownIdsNoInfluence ==
    (session_state[1].set /\ session_state[2].set) =>
        session_state[1].df = session_state[2].df

\* both runs have returned a proposal; both read a store row of a worker
\* absent from the roster, on a date for which rows were proposed, and an
\* availability entry of such a worker
C16_Witness ==
    /\ session_state[1].set
    /\ session_state[2].set
    /\ session_state[1].df # << >>
    /\ \E i \in 1..Len(shifts_file) :
          /\ IsUnknown(shifts_file[i].staff_id)
          /\ StaffOnDate(session_state[1].df, shifts_file[i].date) # << >>
    /\ \E i \in 1..Len(requests_df) : IsUnknown(requests_df[i].staff_id)

\* ---------------------------------------------------------------------
\* C17 Caller's shortfall report, as claimed: on an empty proposal the page
\*     reports "stuck" exactly when, before the run, some date had a total
\*     below total_min or a Core count below core_min (3 on premium days),
\*     and "sufficient" otherwise.
\* ---------------------------------------------------------------------
C17_ShortfallReport ==
    (pc = "done" /\ auto_df = << >>) =>
        LET unmet == \E d \in Days : ~ConfirmedComplete(d)
        IN  /\ report = "stuck" <=> unmet
            /\ report = "sufficient" <=> ~unmet

\* C17 as amended: on an empty proposal the page reports "stuck" exactly
\* when, before the run, some date had a total below total_min or a Core
\* count below 2, premium date or not, and "sufficient" otherwise.
C17_ShortfallReportAmended ==
    (pc = "done" /\ auto_df = << >>) =>
        LET unmet == \E d \in Days :
                        \/ ConfirmedTotal(d) < total_min(d)
                        \/ ConfirmedCore(d) < REQUIRED_EMPLOYEES
        IN  /\ report = "stuck" <=> unmet
            /\ report = "sufficient" <=> ~unmet

\* a first run returned nothing and was reported as "sufficient" although a
\* premium date has only two Core workers
C17_Witness ==
    /\ pc = "done"
    /\ run = 1
    /\ auto_df = << >>
    /\ report = "sufficient"
    /\ \E d \in Days : core_min(d) = 3 /\ ConfirmedCore(d) = 2

\* ---------------------------------------------------------------------
\* C18 Blocked sole kitchen worker: when, on a date, exactly one
\*     kitchen-capable worker is eligible apart from availability and that
\*     worker is blocked for the date, the run proposes no row for the
\*     worker on the date and adds no kitchen-capable worker to it, so a
\*     kitchen headcount below kitchen_min = 2 stays below 2.
\* ---------------------------------------------------------------------
\* capable as the kitchen headcount of Phase 3 counts it
KitchenCapable(sid) == is_kitchen_capable_for_day(sid, FALSE)

\* eligible for date d when the run started, availability entries aside
OtherwiseEligible(sid, d) ==
    /\ sid \in get_active_staff_ids
    /\ ~InSeq(sid, StaffOnDate(existing_shifts_df, d))
    /\ CountOf(existing_shifts_df, sid) < max_shifts_per_person(sid)
    /\ (InSeq(sid, employees) => Weekday(d) \notin employee_dayoff_map(sid))

SoleBlockedKitchen(w, d) ==
    /\ KitchenCapable(w)
    /\ OtherwiseEligible(w, d)
    /\ w \in ng_set(d)
    /\ \A v \in get_active_staff_ids :
          (KitchenCapable(v) /\ OtherwiseEligible(v, d)) => v = w

KitchenOn(d) ==
    Cardinality({ i \in 1..Len(AssignedOn(d)) : KitchenCapable(AssignedOn(d)[i]) })

ConfirmedKitchen(d) ==
    Cardinality({ i \in 1..Len(existing_shifts_df) :
                    /\ existing_shifts_df[i].date = d
                    /\ KitchenCapable(existing_shifts_df[i].staff_id) })

C18_BlockedSoleKitchen ==
    \A d \in Days : \A w \in get_active_staff_ids :
        SoleBlockedKitchen(w, d) =>
            /\ ~InSeq(w, StaffOnDate(new_shift_rows, d))
            /\ KitchenOn(d) = ConfirmedKitchen(d)
            /\ ConfirmedKitchen(d) < 2 => KitchenOn(d) < 2

\* a finished first run that proposed rows for a date whose only eligible
\* kitchen-capable worker is blocked, the date being short of kitchen staff
C18_Witness ==
    /\ pc = "done"
    /\ run = 1
    /\ \E d \in Days : \E w \in get_active_staff_ids :
          /\ SoleBlockedKitchen(w, d)
          /\ ConfirmedKitchen(d) < 2
          /\ StaffOnDate(new_shift_rows, d) # << >>
          /\ CountOf(new_shift_rows, w) > 0

\* ---------------------------------------------------------------------
\* C19 Desired priority: at every selection, in every phase and mode, if
\*     some worker of the filtered candidate list has a Desired entry for
\*     the date, the selected worker has one.
\* ---------------------------------------------------------------------
\* the row of the last selection (cand is its candidate list)
LastPick == new_shift_rows[Len(new_shift_rows)]

C19_DesiredPriority ==
    cand # << >> =>
        /\ new_shift_rows # << >>
        /\ \E i \in 1..Len(cand) : cand[i].c.staff_id = LastPick.staff_id
        /\ (\E i \in 1..Len(cand) : cand[i].c.staff_id \in hope_set(LastPick.date))
              => LastPick.staff_id \in hope_set(LastPick.date)

\* a Phase 3 selection that took a worker with a Desired entry ahead of a
\* candidate without one whose remaining key is smaller
C19_Witness ==
    /\ pc = "phase3"
    /\ mode # ""
    /\ cand # << >>
    /\ LastPick.staff_id \in hope_set(LastPick.date)
    /\ \E i \in 2..Len(cand) :
          /\ cand[i].c.staff_id \notin hope_set(LastPick.date)
          /\ KeyLess(<< 0, cand[i].key[2], cand[i].key[3], cand[i].key[4] >>,
                     << 0, cand[1].key[2], cand[1].key[3], cand[1].key[4] >>)

\* ---------------------------------------------------------------------
\* C20 Phase 3 mode choice: at every Phase 3 selection the mode is decided
\*     by the kitchen and hall headcounts of the date's assignees at that
\*     moment (confirmed, Phase 1-2 and earlier Phase 3 picks): kitchen if
\*     the kitchen count is below 2, else hall if the hall count is below
\*     3, else generic; no hall or generic pick while the kitchen count is
\*     below 2.
\* ---------------------------------------------------------------------
\* the assignees of the last pick's date just before that pick
BeforeLastPick ==
    SubSeq(AssignedOn(LastPick.date), 1, Len(AssignedOn(LastPick.date)) - 1)

KitchenCountOf(at) == Cardinality({ i \in 1..Len(at) : KitchenCapable(at[i]) })

HallCountOf(at) == Cardinality({ i \in 1..Len(at) : counts_for_hall(at[i]) })

\* the last selection was a Phase 3 selection that picked a worker
Phase3Picked == pc \in { "phase3", "done" } /\ mode # "" /\ cand # << >>

C20_Phase3ModeChoice ==
    Phase3Picked =>
        /\ mode = IF KitchenCountOf(BeforeLastPick) < 2 THEN "kitchen"
                  ELSE IF HallCountOf(BeforeLastPick) < 3 THEN "hall"
                  ELSE "any"
        /\ mode \in { "hall", "any" } => KitchenCountOf(BeforeLastPick) >= 2

\* a hall-mode pick on a date whose kitchen count was brought from below 2
\* to 2 by earlier picks of the run, the hall count being below 3
C20_Witness ==
    /\ Phase3Picked
    /\ mode = "hall"
    /\ ConfirmedKitchen(LastPick.date) < 2
    /\ KitchenCountOf(BeforeLastPick) = 2
    /\ HallCountOf(BeforeLastPick) < 3

\* ---------------------------------------------------------------------
\* C21 Phase 1 and Phase 2 selection, as claimed: each Core worker added in
\*     Phases 1-2 is the minimum, over the eligible Core workers, of
\*     (not desired for the date, assigned count, worker id).
\* ---------------------------------------------------------------------
\* the last step selected a Core worker in Phase 1 or Phase 2
Phase12Picked == pc \in { "phase1", "phase2" } /\ cand # << >>

\* the candidate row of the last selection's worker
PickedRow == (CHOOSE i \in 1..Len(cand) : cand[i].c.staff_id = LastPick.staff_id)

NotDesired(sid) == Bool01(sid \notin hope_set(LastPick.date))

C21_CoreSelection ==
    Phase12Picked =>
        \A i \in 1..Len(cand) :
            i # PickedRow =>
                KeyLess(<< NotDesired(cand[PickedRow].c.staff_id), 0,
                           cand[PickedRow].c.assigned_count,
                           IdRank(cand[PickedRow].c.staff_id) >>,
                        << NotDesired(cand[i].c.staff_id), 0,
                           cand[i].c.assigned_count, IdRank(cand[i].c.staff_id) >>)

\* C21 as amended: each Core worker added in Phases 1-2 is the minimum, over
\* the eligible Core workers, of (not desired for the date, remaining
\* capacity descending, assigned count, worker id).
C21_CoreSelectionAmended ==
    Phase12Picked =>
        \A i \in 1..Len(cand) :
            i # PickedRow =>
                KeyLess(<< NotDesired(cand[PickedRow].c.staff_id),
                           0 - cand[PickedRow].c.remaining_cap,
                           cand[PickedRow].c.assigned_count,
                           IdRank(cand[PickedRow].c.staff_id) >>,
                        << NotDesired(cand[i].c.staff_id),
                           0 - cand[i].c.remaining_cap,
                           cand[i].c.assigned_count, IdRank(cand[i].c.staff_id) >>)

\* a Phase 1-2 selection that took a worker with more assignments so far
\* than another candidate of the same Desired status, on remaining capacity
C21_Witness ==
    /\ Phase12Picked
    /\ \E i \in 1..Len(cand) :
          /\ NotDesired(cand[i].c.staff_id) = NotDesired(LastPick.staff_id)
          /\ cand[i].c.assigned_count < cand[PickedRow].c.assigned_count
          /\ cand[i].c.remaining_cap < cand[PickedRow].c.remaining_cap

\* ---------------------------------------------------------------------
\* C22 Phase 3 selection: each worker added in Phase 3 is the minimum, over
\*     the eligible workers that pass the mode filter, of (not desired,
\*     secondary key, assigned count, worker id); the secondary key is the
\*     kitchen-priority rank in kitchen mode and Flexible-before-Core in
\*     hall and generic mode, so that there a Core worker is chosen only
\*     when no Flexible candidate of the same Desired status is eligible.
\* ---------------------------------------------------------------------
\* the running count of sid when the last selection was made
CountBeforeLastPick(sid) ==
    assigned_count_get(sid) - (IF sid = LastPick.staff_id THEN 1 ELSE 0)

\* sid was eligible for the last selection and passed its mode filter
PassedLastFilter(sid) ==
    /\ sid \notin ng_set(LastPick.date)
    /\ ~InSeq(sid, BeforeLastPick)
    /\ CountBeforeLastPick(sid) < max_shifts_per_person(sid)
    /\ (InSeq(sid, employees) => Weekday(LastPick.date) \notin employee_dayoff_map(sid))
    /\ (mode = "kitchen" =>
          is_kitchen_capable_for_day(
              sid, ~InSeq(EMP_SATO_ID, StaffOnDate(combined, LastPick.date))))
    /\ (mode = "hall" => counts_for_hall(sid))

Phase3Key(sid) ==
    << NotDesired(sid),
       IF mode = "kitchen" THEN kitchen_priority_rank(sid)
       ELSE Bool01(InSeq(sid, employees)),
       CountBeforeLastPick(sid),
       IdRank(sid) >>

C22_Phase3Selection ==
    Phase3Picked =>
        /\ { cand[i].c.staff_id : i \in 1..Len(cand) }
              = { sid \in get_active_staff_ids : PassedLastFilter(sid) }
        /\ PassedLastFilter(LastPick.staff_id)
        /\ \A sid \in get_active_staff_ids :
              (PassedLastFilter(sid) /\ sid # LastPick.staff_id)
                  => KeyLess(Phase3Key(LastPick.staff_id), Phase3Key(sid))
        /\ (mode \in { "hall", "any" } /\ InSeq(LastPick.staff_id, employees)) =>
              \A sid \in get_active_staff_ids :
                  (PassedLastFilter(sid) /\ InSeq(sid, parttimers))
                      => NotDesired(sid) # NotDesired(LastPick.staff_id)

\* a hall or generic pick of a Flexible worker ahead of an eligible Core
\* worker of the same Desired status with fewer assignments so far
C22_Witness ==
    /\ Phase3Picked
    /\ mode \in { "hall", "any" }
    /\ InSeq(LastPick.staff_id, parttimers)
    /\ \E sid \in get_active_staff_ids :
          /\ PassedLastFilter(sid)
          /\ InSeq(sid, employees)
          /\ NotDesired(sid) = NotDesired(LastPick.staff_id)
          /\ CountBeforeLastPick(sid) < CountBeforeLastPick(LastPick.staff_id)

\* ---------------------------------------------------------------------
\* C23 Phase 2 ordering, as claimed: a third Core worker is only ever added
\*     on a Friday, Saturday, Sunday or Monday-Thursday holiday; Phase 2
\*     starts after Phase 1 has processed every date, visits each premium
\*     date exactly once, in the order Fridays, Saturdays, Sundays, weekday
\*     holidays, and its records stand in that order in the output.
\* ---------------------------------------------------------------------
\* Core rows on the date of proposal row k before that row was added
CoreBefore(k) ==
    ConfirmedCore(new_shift_rows[k].date)
      + Cardinality({ l \in 1..(k - 1) :
                        /\ new_shift_rows[l].date = new_shift_rows[k].date
                        /\ InSeq(new_shift_rows[l].staff_id, employees) })

\* proposal row k is a Core worker added to a date that had two or more
ThirdCore(k) == InSeq(new_shift_rows[k].staff_id, employees) /\ CoreBefore(k) >= 2

\* number of proposal rows written by Phases 1 and 2
RowsOfPhases12 ==
    IF pc \in { "phase1", "phase2" } THEN Len(new_shift_rows)
    ELSE Len(combined) - Len(existing_shifts_df)

Premium(d) == Weekday(d) >= 4 \/ (get_jp_holiday_name(d) /\ Weekday(d) <= 3)

\* Fridays 0, Saturdays 1, Sundays 2, weekday holidays 3
PremiumClass(d) == IF Weekday(d) >= 4 THEN Weekday(d) - 4 ELSE 3

Phase2Order ==
    /\ pc = "phase1" => \A k \in 1..Len(new_shift_rows) : ~ThirdCore(k)
    /\ { Phase2Dates[i] : i \in 1..Len(Phase2Dates) } = { d \in Days : Premium(d) }
    /\ \A i, j \in 1..Len(Phase2Dates) :
          i < j => /\ Phase2Dates[i] # Phase2Dates[j]
                   /\ PremiumClass(Phase2Dates[i]) <= PremiumClass(Phase2Dates[j])
    /\ (pc = "phase2" /\ idx <= Len(Phase2Dates)) =>
          \A k \in 1..Len(new_shift_rows) :
              ThirdCore(k) => \E i \in 1..idx : Phase2Dates[i] = new_shift_rows[k].date
    /\ \A k, l \in 1..RowsOfPhases12 :
          (k < l /\ ThirdCore(k) /\ ThirdCore(l)) =>
              PremiumClass(new_shift_rows[k].date) <= PremiumClass(new_shift_rows[l].date)

C23_Phase2Ordering ==
    /\ \A k \in 1..Len(new_shift_rows) : ThirdCore(k) => Premium(new_shift_rows[k].date)
    /\ Phase2Order

\* C23 as amended: Phases 1 and 2 add a third Core worker only on a Friday,
\* Saturday, Sunday or Monday-Thursday holiday (Phase 3 may add one on any
\* date); the rest as claimed.
C23_Phase2OrderingAmended ==
    /\ \A k \in 1..RowsOfPhases12 : ThirdCore(k) => Premium(new_shift_rows[k].date)
    /\ Phase2Order

\* Phase 2 is over and wrote a record for a Friday ahead of a record for an
\* earlier date that is a weekday holiday
C23_Witness ==
    /\ pc = "phase3"
    /\ \E k, l \in 1..RowsOfPhases12 :
          /\ k < l
          /\ ThirdCore(k)
          /\ ThirdCore(l)
          /\ new_shift_rows[k].date > new_shift_rows[l].date
          /\ Weekday(new_shift_rows[k].date) = 4
          /\ Weekday(new_shift_rows[l].date) <= 3


\* ---------------------------------------------------------------------
\* C24 Manager as kitchen fallback: at every Phase 3 selection the 店長
\*     (S001) is treated as kitchen-capable, in the kitchen-mode candidate
\*     filter and in the live kitchen headcount that chooses the mode, only
\*     if 佐藤 (S003) is among the date's assignees; S003 is never
\*     kitchen-capable.
\* ---------------------------------------------------------------------
\* kitchen headcount of a list of assignees in which the 店長 counts only
\* when S003 is in the list
FallbackKitchenCountOf(at) ==
    Cardinality({ i \in 1..Len(at) :
                    is_kitchen_capable_for_day(at[i], ~InSeq(EMP_SATO_ID, at)) })

C24_ManagerFallback ==
    Phase3Picked =>
        /\ (mode = "kitchen") <=> (FallbackKitchenCountOf(BeforeLastPick) < 2)
        /\ mode = "kitchen" =>
              \A i \in 1..Len(cand) :
                  /\ cand[i].c.staff_id # EMP_SATO_ID
                  /\ cand[i].c.staff_id = MANAGER_ID =>
                        InSeq(EMP_SATO_ID, BeforeLastPick)


\* ---------------------------------------------------------------------
\* C25 Kitchen-priority rank by capability tag, as claimed: the rank used in
\*     kitchen mode is 0 for a worker tagged 料理長, 1 for 調理場担当, 2 for
\*     オールラウンド, 3 for the 店長 (S001) and 9 otherwise; among equally
\*     desired kitchen candidates the pick has the lowest such rank.
\* ---------------------------------------------------------------------
TagRank(sid) ==
    IF position_map(sid) = "chef" THEN 0
    ELSE IF position_map(sid) = "kitchen" THEN 1
    ELSE IF position_map(sid) = "allround" THEN 2
    ELSE IF sid = MANAGER_ID THEN 3
    ELSE 9

C25_RankByTag ==
    (Phase3Picked /\ mode = "kitchen") =>
        \A i \in 1..Len(cand) :
            /\ cand[i].key[2] = TagRank(cand[i].c.staff_id)
            /\ cand[i].c.is_hope = cand[1].c.is_hope =>
                  TagRank(cand[1].c.staff_id) <= TagRank(cand[i].c.staff_id)

\* C25 amended: rank 0 belongs to the worker whose id is S002 whatever the
\*     tag; a worker tagged 料理長 under another id has rank 9 (3 if it is
\*     S001), after 調理場担当, オールラウンド and the 店長; among equally
\*     desired kitchen candidates the pick has the lowest such rank.
ChefIdRank(sid) ==
    IF sid = "S002" THEN 0
    ELSE IF position_map(sid) = "kitchen" THEN 1
    ELSE IF position_map(sid) = "allround" THEN 2
    ELSE IF sid = "S001" THEN 3
    ELSE 9

C25_RankByChefId ==
    (Phase3Picked /\ mode = "kitchen") =>
        \A i \in 1..Len(cand) :
            /\ cand[i].key[2] = ChefIdRank(cand[i].c.staff_id)
            /\ cand[i].c.is_hope = cand[1].c.is_hope =>
                  ChefIdRank(cand[1].c.staff_id) <= ChefIdRank(cand[i].c.staff_id)

\* a kitchen-mode selection that picked a 調理場担当 or オールラウンド worker
\* while an equally desired worker tagged 料理長 was a candidate
C25_Witness ==
    /\ Phase3Picked
    /\ mode = "kitchen"
    /\ cand[1].c.pos \in { "kitchen", "allround" }
    /\ \E i \in 1..Len(cand) :
          /\ cand[i].c.pos = "chef"
          /\ cand[i].c.is_hope = cand[1].c.is_hope


\* ---------------------------------------------------------------------
\* C26 Phase 3 stops at total_min: Phase 3 never adds a worker to a date
\*     whose total (confirmed + proposed so far) is already at least
\*     total_min, whatever the date's kitchen and hall headcounts; the number
\*     of Phase 3 additions on a date is at most
\*     max(total_min - total after Phases 1-2, 0).
\* ---------------------------------------------------------------------
\* total of the date of proposal row k just before that row was written
TotalBefore(k) ==
    ConfirmedTotal(new_shift_rows[k].date)
      + Cardinality({ l \in 1..(k - 1) : new_shift_rows[l].date = new_shift_rows[k].date })

TotalAfterPhases12(d) ==
    ConfirmedTotal(d)
      + Cardinality({ k \in 1..RowsOfPhases12 : new_shift_rows[k].date = d })

Phase3RowsOn(d) ==
    Cardinality({ k \in (RowsOfPhases12 + 1)..Len(new_shift_rows) : new_shift_rows[k].date = d })

C26_Phase3StopsAtTotalMin ==
    /\ \A k \in (RowsOfPhases12 + 1)..Len(new_shift_rows) :
          TotalBefore(k) < total_min(new_shift_rows[k].date)
    /\ \A d \in Days :
          Phase3RowsOn(d) <= Max(total_min(d) - TotalAfterPhases12(d), 0)

\* a finished run in which Phase 3 added to a date, brought it to total_min
\* and left it with fewer than 2 kitchen workers or fewer than 3 hall workers
C26_Witness ==
    /\ pc = "done"
    /\ \E d \in Days :
          /\ Phase3RowsOn(d) > 0
          /\ TotalOn(d) = total_min(d)
          /\ \/ KitchenCountOf(AssignedOn(d)) < 2
             \/ HallCountOf(AssignedOn(d)) < 3


\* ---------------------------------------------------------------------
\* C27 Termination: a run of the engine terminates; every per-date selection
\*     loop performs at most its precomputed need of iterations (the count of
\*     iterations left never goes below 0 and every iteration lowers it), and
\*     each iteration either records one new assignment or ends the loop.
\* ---------------------------------------------------------------------
\* a step taken inside a per-date loop: one new row, or the end of the loop
IterationStep ==
    loop_left > 0 =>
        \/ /\ Len(new_shift_rows') = Len(new_shift_rows) + 1
           /\ SubSeq(new_shift_rows', 1, Len(new_shift_rows)) = new_shift_rows
           /\ PairOf(new_shift_rows'[Len(new_shift_rows')])
                 \notin Pairs(existing_shifts_df) \cup Pairs(new_shift_rows)
           /\ loop_left' = loop_left - 1
        \/ /\ new_shift_rows' = new_shift_rows
           /\ loop_left' = 0

C27_Termination ==
    /\ [](loop_left \in 0..WEEKEND_REQUIRED_STAFF)
    /\ [][IterationStep]_vars
    /\ (pc = "phase1") ~> (pc = "done")

\* a finished run that recorded assignments and in which a loop ended early,
\* leaving a date short
C27_Witness ==
    /\ pc = "done"
    /\ new_shift_rows # << >>
    /\ \E d \in Days : Short(d)

\* ---------------------------------------------------------------------
\* C28 No lost commit: once two sessions have each committed a proposal,
\*     whatever the order of their reloads and saves, the store holds every
\*     (date, worker) pair proposed by either session.
\* ---------------------------------------------------------------------
C28_NoLostCommit ==
    (\A s \in Sessions : last_save.committed[s] # { } /\ commit[s].pc = "idle") =>
        \A s \in Sessions : last_save.committed[s] \subseteq Pairs(shifts_file)

\* ---------------------------------------------------------------------
\* C29 Reference-employee flag stays current: whenever a Phase 3 iteration
\*     of a date is about to select in kitchen mode, the flag sato_is_off
\*     computed once before the date's loop equals the value recomputed from
\*     the date's current assignee list (S003 was not added to the date in
\*     between).
\* ---------------------------------------------------------------------
\* the next step is a Phase 3 iteration that selects in kitchen mode
KitchenSelectionDue ==
    /\ pc = "phase3"
    /\ loop_left > 0
    /\ ChooseMode(assigned_today) = "kitchen"

C29_FlagStaysCurrent ==
    KitchenSelectionDue => (sato_is_off <=> ~InSeq(EMP_SATO_ID, assigned_today))

\* a kitchen-mode selection is due on a date to which this loop has already
\* added a worker, S003 being a worker the loop could still add
C29_Witness ==
    /\ KitchenSelectionDue
    /\ Len(assigned_today) > Len(StaffOnDate(combined, PhaseDates[idx]))
    /\ sato_is_off
    /\ AnyEligible(EMP_SATO_ID, PhaseDates[idx], assigned_today, ng_set(PhaseDates[idx]))


\* ---------------------------------------------------------------------
\* C30 Running count bookkeeping: at every point of a run and for every
\*     roster worker w, assigned_count[w] is the number of confirmed input
\*     records of w plus the number of proposal records of w created so far;
\*     no phase counts a record twice or skips one.
\* ---------------------------------------------------------------------
C30_RunningCount ==
    pc # "idle" =>
        \A w \in get_active_staff_ids :
            assigned_count_get(w) = CountOf(existing_shifts_df, w) + CountOf(new_shift_rows, w)

\* Phase 3 has run on top of counts made of all three sources: a worker
\* with a confirmed record and a Phase 1-2 record, and a worker with a
\* confirmed record and a Phase 3 record
C30_Witness ==
    /\ pc \in { "phase3", "done" }
    /\ \E w \in get_active_staff_ids :
          /\ CountOf(existing_shifts_df, w) > 0
          /\ \E k \in 1..RowsOfPhases12 : new_shift_rows[k].staff_id = w
    /\ \E w \in get_active_staff_ids :
          /\ CountOf(existing_shifts_df, w) > 0
          /\ \E k \in (RowsOfPhases12 + 1)..Len(new_shift_rows) : new_shift_rows[k].staff_id = w
====
